---- MODULE Spec2Model ----
(***************************************************************************)
(* Model of ShadowTree (ABI38_0_0ShadowTree.cpp): the optimistic commit    *)
(* loop commit/tryCommit over an immutable node tree, and the mount-flag   *)
(* pass updateMountedFlag.                                                 *)
(***************************************************************************)
EXTENDS Integers, Sequences, FiniteSets, TLC

\* ------------------------------------------------------------------ bounds
\* threads that may call commit concurrently
NumThreads == 2
\* commit calls made in one behaviour of the concurrent specification
MaxCalls == 2
\* commit calls made in one behaviour of the single-threaded specification
MaxEdits == 3
\* children a caller gives the root
MaxChildren == 3
\* attempts of one commit call that are explored
MaxAttempts == 3

\* ------------------------------------------------------- program constants
\* assert(attempts < 1024) in ShadowTree::commit
AttemptsCap == 1024
\* the number of the revision the constructor publishes
InitialRevisionNumber == 0
\* the initial value of the member revisionNumber_
InitialCounter == 0

Threads == 1..NumThreads
MainThread == 1
NoThread == 0
NoNode == 0
\* ShadowNode::emptySharedShadowNodeSharedList(): one static empty list
EmptySharedList == 0
\* the temporary `{}` of updateMountedFlag({}, ...) / (..., {})
TemporaryList == -1

VARIABLES
  heap,                 \* node objects: id -> [family, hasState, listId, children, builtFrom]
  mounted,              \* set of node ids whose mounted flag is true
  sealed,               \* set of node ids that are sealed
  rootShadowNode_,      \* current root (node id), protected by commitMutex_
  revisionNumber_,      \* protected by commitMutex_
  commitMutex_,         \* [writer |-> thread or NoThread, readers |-> set of threads]
  dispatchMutex,        \* EventEmitter::DispatchMutex(): holder or NoThread
  mountingCoordinator_, \* [base |-> revision, pushed |-> sequence of revisions]
  delegateCalls,        \* number of shadowTreeDidFinishTransaction calls
  layoutEmissions,      \* number of emitLayoutEvents calls
  pc,                   \* per thread: position in commit/tryCommit
  transaction,          \* per thread: the transaction passed to commit
  attempts,             \* per thread: local `attempts` of commit
  oldRootShadowNode,    \* per thread: local of tryCommit
  newRootShadowNode,    \* per thread: local of tryCommit
  affectedLayoutableNodes, \* per thread: local of tryCommit
  revisionNumber,       \* per thread: local of tryCommit
  calls,                \* per thread: number of commit calls made so far
  history,              \* revisions in the order their numbers were assigned
  lastPass              \* the latest mount-flag pass: its lists, its events, the flags before

vars == <<heap, mounted, sealed, rootShadowNode_, revisionNumber_, commitMutex_,
          dispatchMutex, mountingCoordinator_, delegateCalls, layoutEmissions, pc,
          transaction, attempts, oldRootShadowNode, newRootShadowNode,
          affectedLayoutableNodes, revisionNumber, calls, history, lastPass>>

\* ------------------------------------------------------------------ nodes
RootFamily == 1

Node(family, hasState, listId, children, builtFrom) ==
  [family |-> family, hasState |-> hasState, listId |-> listId,
   children |-> children, builtFrom |-> builtFrom]

\* a node just made by a component descriptor: no children, not sealed
Leaf(id, hasState) == Node(id, hasState, EmptySharedList, <<>>, NoNode)

\* ShadowNode::getChildren(): the list object and its entries
getChildren(n) == [id |-> heap[n].listId, items |-> heap[n].children]

EmptyTemporary == [id |-> TemporaryList, items |-> <<>>]

\* ShadowNode::sameFamily
sameFamily(a, b) == heap[a].family = heap[b].family

\* ShadowNode::getState() is non-null
getState(n) == heap[n].hasState

RECURSIVE SubtreeIn(_, _)
SubtreeIn(h, n) ==
  LET cs == h[n].children
      below(i) == SubtreeIn(h, cs[i])
  IN {n} \cup UNION {below(i) : i \in 1..Len(cs)}

\* the nodes reachable from n, n included
Subtree(n) == SubtreeIn(heap, n)

\* the nodes reachable below n
Below(n) == UNION {Subtree(heap[n].children[i]) : i \in 1..Len(heap[n].children)}

\* ------------------------------------------------------------ transactions
NoTransaction == [kind |-> "none"]

Remove(s, i) == SubSeq(s, 1, i - 1) \o SubSeq(s, i + 1, Len(s))

Range(s) == {s[i] : i \in 1..Len(s)}

\* The candidate built by transaction `op` from snapshot r, on heap h:
\* the new node objects (appended to the heap, the new root last).
Build(op, h, r) ==
  LET b == Len(h)
      cs == h[r].children
      \* the clone of the root; a list of its own has the id of the clone
      root(children, listId) == Node(RootFamily, FALSE, listId, children, r)
      touch == <<root(cs, h[r].listId)>>
      inRange == op.i \in 1..Len(cs)
      c == cs[op.i]
  IN CASE op.kind = "append" ->
            [j \in 1..op.k |-> Leaf(b + j, op.withState)]
              \o <<root(cs \o [j \in 1..op.k |-> b + j], b + op.k + 1)>>
       [] op.kind = "touch" -> touch
       [] op.kind = "empty" -> <<root(<<>>, EmptySharedList)>>
       [] op.kind = "update" ->
            IF ~inRange THEN touch
            ELSE <<Node(h[c].family, h[c].hasState, h[c].listId, h[c].children, NoNode),
                   root([cs EXCEPT ![op.i] = b + 1], b + 2)>>
       [] op.kind = "grow" ->
            IF ~inRange THEN touch
            ELSE <<Leaf(b + 1, op.withState),
                   Node(h[c].family, h[c].hasState, b + 2,
                        Append(h[c].children, b + 1), NoNode),
                   root([cs EXCEPT ![op.i] = b + 2], b + 3)>>
       [] op.kind = "shrink" ->
            IF ~inRange THEN touch
            ELSE <<Node(h[c].family, h[c].hasState, b + 1,
                        IF h[c].children = <<>> THEN <<>>
                        ELSE SubSeq(h[c].children, 1, Len(h[c].children) - 1), NoNode),
                   root([cs EXCEPT ![op.i] = b + 1], b + 2)>>
       [] op.kind = "remove" ->
            IF ~inRange THEN touch
            ELSE <<root(Remove(cs, op.i), b + 1)>>
       [] op.kind = "replace" ->
            IF ~inRange THEN touch
            ELSE <<Leaf(b + 1, op.withState),
                   root([cs EXCEPT ![op.i] = b + 1], b + 2)>>
       [] op.kind = "updateBelow" ->
            IF ~inRange \/ h[c].children = <<>> THEN touch
            ELSE LET gs == h[c].children
                     g == gs[Len(gs)]
                 IN <<Node(h[g].family, h[g].hasState, h[g].listId, h[g].children, NoNode),
                      Node(h[c].family, h[c].hasState, b + 2,
                           [gs EXCEPT ![Len(gs)] = b + 1], NoNode),
                      root([cs EXCEPT ![op.i] = b + 2], b + 3)>>
       [] op.kind = "growAndReplace" ->
            IF ~inRange \/ op.k \notin 1..Len(cs) THEN touch
            ELSE <<Leaf(b + 1, op.withState),
                   Node(h[c].family, h[c].hasState, b + 2,
                        Append(h[c].children, b + 1), NoNode),
                   Leaf(b + 3, op.withState),
                   root([cs EXCEPT ![op.i] = b + 2, ![op.k] = b + 3], b + 4)>>
       [] op.kind = "replaceAndUpdate" ->
            IF ~inRange \/ op.k \notin 1..Len(cs) THEN touch
            ELSE LET d == cs[op.k]
                 IN <<Leaf(b + 1, op.withState),
                      Node(h[d].family, h[d].hasState, h[d].listId, h[d].children, NoNode),
                      root([cs EXCEPT ![op.i] = b + 1, ![op.k] = b + 2], b + 3)>>

Op(kind, i, k, withState) == [kind |-> kind, i |-> i, k |-> k, withState |-> withState]

AbortOp == Op("abort", 0, 0, FALSE)

\* the transactions a caller may pass, given the root it sees when it calls
Transactions(r) ==
  LET n == Len(heap[r].children)
  IN {AbortOp, Op("touch", 0, 0, FALSE), Op("empty", 0, 0, FALSE)}
       \cup {Op("append", 0, k, s) : k \in 1..(MaxChildren - n), s \in BOOLEAN}
       \cup {Op(kind, i, 0, FALSE) : kind \in {"update", "remove", "replace"}, i \in 1..n}
       \cup {Op("grow", i, 0, TRUE) : i \in 1..n}
       \cup {Op(kind, i, 0, FALSE) : kind \in {"shrink", "updateBelow"},
                                     i \in {j \in 1..n : heap[heap[r].children[j]].children # <<>>}}
       \cup {Op(kind, i, i + 1, FALSE) : kind \in {"replaceAndUpdate", "growAndReplace"},
                                         i \in 1..(n - 1)}

\* ------------------------------------------------------ updateMountedFlag
\* The pass is computed as the sequence of calls it makes, in order:
\* <<"setMounted", node, TRUE|FALSE>> and <<"commit", node>> (state->commit).
SetMounted(n, value) == <<"setMounted", n, value>>

\* mutant: the state is committed without looking whether there is one
CommitStateAlways(n) == <<<<"commit", n>>>>

\* CommitState: state->commit(shadowNode) if the node has a state
CommitState(n) == IF getState(n) THEN <<<<"commit", n>>>> ELSE <<>>

RECURSIVE updateMountedFlag(_, _), FirstStage(_, _, _), SecondStage(_, _), ThirdStage(_, _)

\* mutant: stage 1 unmounts the old child before it mounts the new one
FirstStageUnmountFirst(oldItems, newItems, index) ==
  IF index > Len(oldItems) \/ index > Len(newItems)
  THEN [events |-> <<>>, last |-> index]
  ELSE LET oldChild == oldItems[index]
           newChild == newItems[index]
       IN IF oldChild = newChild
          THEN FirstStage(oldItems, newItems, index + 1)
          ELSE IF ~sameFamily(oldChild, newChild)
          THEN [events |-> <<>>, last |-> index]
          ELSE LET rest == FirstStage(oldItems, newItems, index + 1)
               IN [events |-> <<SetMounted(oldChild, FALSE)>>
                                \o <<SetMounted(newChild, TRUE)>> \o CommitState(newChild)
                                \o updateMountedFlag(getChildren(oldChild),
                                                     getChildren(newChild))
                                \o rest.events,
                   last |-> rest.last]

\* mutant: stage 1 takes a pair of one family for an unchanged node: no
\* transition for the pair, its children still diffed
FirstStageNoTransition(oldItems, newItems, index) ==
  IF index > Len(oldItems) \/ index > Len(newItems)
  THEN [events |-> <<>>, last |-> index]
  ELSE LET oldChild == oldItems[index]
           newChild == newItems[index]
       IN IF oldChild = newChild
          THEN FirstStage(oldItems, newItems, index + 1)
          ELSE IF ~sameFamily(oldChild, newChild)
          THEN [events |-> <<>>, last |-> index]
          ELSE LET rest == FirstStage(oldItems, newItems, index + 1)
               IN [events |-> updateMountedFlag(getChildren(oldChild),
                                                getChildren(newChild))
                                \o rest.events,
                   last |-> rest.last]

\* mutant: stage 1 does not skip a child that is the same instance in the two
\* lists; it takes it for an updated child
FirstStageNoSkip(oldItems, newItems, index) ==
  IF index > Len(oldItems) \/ index > Len(newItems)
  THEN [events |-> <<>>, last |-> index]
  ELSE LET oldChild == oldItems[index]
           newChild == newItems[index]
       IN IF ~sameFamily(oldChild, newChild)
          THEN [events |-> <<>>, last |-> index]
          ELSE LET rest == FirstStage(oldItems, newItems, index + 1)
               IN [events |-> <<SetMounted(newChild, TRUE)>> \o CommitState(newChild)
                                \o <<SetMounted(oldChild, FALSE)>>
                                \o updateMountedFlag(getChildren(oldChild),
                                                     getChildren(newChild))
                                \o rest.events,
                   last |-> rest.last]

\* mutant: stage 1 goes on after a pair of two families: the new child is
\* inserted, the old one removed, and the pairs that follow are still updated
FirstStageResumes(oldItems, newItems, index) ==
  IF index > Len(oldItems) \/ index > Len(newItems)
  THEN [events |-> <<>>, last |-> index]
  ELSE LET oldChild == oldItems[index]
           newChild == newItems[index]
           rest == FirstStage(oldItems, newItems, index + 1)
       IN IF oldChild = newChild
          THEN rest
          ELSE IF ~sameFamily(oldChild, newChild)
          THEN [events |-> <<SetMounted(newChild, TRUE)>> \o CommitState(newChild)
                             \o updateMountedFlag(EmptyTemporary, getChildren(newChild))
                             \o <<SetMounted(oldChild, FALSE)>>
                             \o updateMountedFlag(getChildren(oldChild), EmptyTemporary)
                             \o rest.events,
                last |-> rest.last]
          ELSE [events |-> <<SetMounted(newChild, TRUE)>> \o CommitState(newChild)
                             \o <<SetMounted(oldChild, FALSE)>>
                             \o updateMountedFlag(getChildren(oldChild),
                                                  getChildren(newChild))
                             \o rest.events,
                last |-> rest.last]

\* Stage 1, from index `index` (1-based): the events and lastIndexAfterFirstStage
FirstStage(oldItems, newItems, index) ==
  IF index > Len(oldItems) \/ index > Len(newItems)
  THEN [events |-> <<>>, last |-> index]
  ELSE LET oldChild == oldItems[index]
           newChild == newItems[index]
       IN IF oldChild = newChild
          THEN FirstStage(oldItems, newItems, index + 1)
          ELSE IF ~sameFamily(oldChild, newChild)
          THEN [events |-> <<>>, last |-> index]
          ELSE LET rest == FirstStage(oldItems, newItems, index + 1)
               IN [events |-> <<SetMounted(newChild, TRUE)>> \o CommitState(newChild)
                                \o <<SetMounted(oldChild, FALSE)>>
                                \o updateMountedFlag(getChildren(oldChild),
                                                     getChildren(newChild))
                                \o rest.events,
                   last |-> rest.last]

\* Stage 2: mount the new children from `index` on
SecondStage(newItems, index) ==
  IF index > Len(newItems) THEN <<>>
  ELSE LET newChild == newItems[index]
       IN <<SetMounted(newChild, TRUE)>> \o CommitState(newChild)
            \o updateMountedFlag(EmptyTemporary, getChildren(newChild))
            \o SecondStage(newItems, index + 1)

\* mutant: stage 3 unmounts the old children and not what is below them
ThirdStageShallow(oldItems, index) ==
  IF index > Len(oldItems) THEN <<>>
  ELSE <<SetMounted(oldItems[index], FALSE)>> \o ThirdStage(oldItems, index + 1)

\* Stage 3: unmount the old children from `index` on
ThirdStage(oldItems, index) ==
  IF index > Len(oldItems) THEN <<>>
  ELSE LET oldChild == oldItems[index]
       IN <<SetMounted(oldChild, FALSE)>>
            \o updateMountedFlag(getChildren(oldChild), EmptyTemporary)
            \o ThirdStage(oldItems, index + 1)

\* mutant: the pass returns as soon as one of the two lists is empty
updateMountedFlagEitherEmpty(oldChildren, newChildren) ==
  IF oldChildren.id = newChildren.id THEN <<>>
  ELSE IF Len(oldChildren.items) = 0 \/ Len(newChildren.items) = 0 THEN <<>>
  ELSE LET first == FirstStage(oldChildren.items, newChildren.items, 1)
       IN first.events \o SecondStage(newChildren.items, first.last)
                       \o ThirdStage(oldChildren.items, first.last)

updateMountedFlag(oldChildren, newChildren) ==
  IF oldChildren.id = newChildren.id THEN <<>>
  ELSE IF Len(oldChildren.items) = 0 /\ Len(newChildren.items) = 0 THEN <<>>
  ELSE LET first == FirstStage(oldChildren.items, newChildren.items, 1)
       IN first.events \o SecondStage(newChildren.items, first.last)
                       \o ThirdStage(oldChildren.items, first.last)

\* the mounted flags after the calls of `events`, made in order on flags m
RECURSIVE ApplyEvents(_, _)
ApplyEvents(m, events) ==
  IF events = <<>> THEN m
  ELSE LET e == Head(events)
       IN ApplyEvents(IF e[1] # "setMounted" THEN m
                      ELSE IF e[3] THEN m \cup {e[2]} ELSE m \ {e[2]},
                      Tail(events))

\* ------------------------------------------------------------------- Init
Revision(root, number) == [root |-> root, number |-> number]

NoPass == [old |-> EmptyTemporary, new |-> EmptyTemporary, events |-> <<>>, before |-> {}]

\* ShadowTree::ShadowTree: the root made by the root component descriptor
\* (no children, not sealed by the constructor), published as revision 0.
Init ==
  /\ heap = <<Node(RootFamily, FALSE, EmptySharedList, <<>>, NoNode)>>
  /\ mounted = {}
  /\ sealed = {}
  /\ rootShadowNode_ = 1
  /\ revisionNumber_ = InitialCounter
  /\ commitMutex_ = [writer |-> NoThread, readers |-> {}]
  /\ dispatchMutex = NoThread
  /\ mountingCoordinator_ = [base |-> Revision(1, InitialRevisionNumber), pushed |-> <<>>]
  /\ delegateCalls = 0
  /\ layoutEmissions = 0
  /\ pc = [t \in Threads |-> "idle"]
  /\ transaction = [t \in Threads |-> NoTransaction]
  /\ attempts = [t \in Threads |-> 0]
  /\ oldRootShadowNode = [t \in Threads |-> NoNode]
  /\ newRootShadowNode = [t \in Threads |-> NoNode]
  /\ affectedLayoutableNodes = [t \in Threads |-> {}]
  /\ revisionNumber = [t \in Threads |-> 0]
  /\ calls = [t \in Threads |-> 0]
  /\ history = <<>>
  /\ lastPass = NoPass

\* ---------------------------------------------------------------- actions
treeVars == <<heap, mounted, sealed, rootShadowNode_, revisionNumber_, history, lastPass>>
lockVars == <<commitMutex_, dispatchMutex>>
outVars == <<mountingCoordinator_, delegateCalls, layoutEmissions>>
localVars == <<oldRootShadowNode, newRootShadowNode, affectedLayoutableNodes, revisionNumber>>

RECURSIVE SumTo(_, _)
SumTo(f, n) == IF n = 0 THEN 0 ELSE f[n] + SumTo(f, n - 1)

\* commit calls made so far, by all threads
TotalCalls == SumTo(calls, NumThreads)

Goto(t, label) == pc' = [pc EXCEPT ![t] = label]

\* ShadowTree::commit(transaction): attempts = 0, then the first attempts++
Call(t, op) ==
  /\ pc[t] = "idle"
  /\ calls' = [calls EXCEPT ![t] = @ + 1]
  /\ transaction' = [transaction EXCEPT ![t] = op]
  /\ attempts' = [attempts EXCEPT ![t] = 1]
  /\ Goto(t, "lockShared")
  /\ UNCHANGED <<treeVars, lockVars, outVars, localVars>>

\* the transactions of the concurrent callers
ConcurrentTransactions == {AbortOp, Op("append", 0, 1, TRUE)}

commit(t) ==
  /\ TotalCalls < MaxCalls
  /\ \E op \in ConcurrentTransactions : Call(t, op)

\* ShadowTree::commitEmptyTree: commit of the transaction that clones the
\* root with the shared empty list as children
commitEmptyTree(t) ==
  /\ TotalCalls < MaxCalls
  /\ Call(t, Op("empty", 0, 0, FALSE))

\* each thread calls commit once, with a transaction that never aborts
commitOnce(t) ==
  /\ calls[t] = 0
  /\ Call(t, Op("append", 0, 1, TRUE))

\* a single caller editing the tree it sees
commitEdit ==
  /\ TotalCalls < MaxEdits
  /\ \E op \in Transactions(rootShadowNode_) \ {AbortOp} : Call(MainThread, op)

\* std::shared_lock<better::shared_mutex> lock(commitMutex_)
LockShared(t) ==
  /\ pc[t] = "lockShared"
  /\ commitMutex_.writer = NoThread
  /\ commitMutex_' = [commitMutex_ EXCEPT !.readers = @ \cup {t}]
  /\ Goto(t, "readRoot")
  /\ UNCHANGED <<treeVars, dispatchMutex, outVars, localVars, transaction, attempts, calls>>

\* mutant: the shared lock is kept after the read, over the transaction
ReadRootKeepsLock(t) ==
  /\ pc[t] = "readRoot"
  /\ oldRootShadowNode' = [oldRootShadowNode EXCEPT ![t] = rootShadowNode_]
  /\ Goto(t, "transaction")
  /\ UNCHANGED <<treeVars, lockVars, outVars, newRootShadowNode,
                 affectedLayoutableNodes, revisionNumber, transaction, attempts, calls>>

\* oldRootShadowNode = rootShadowNode_; the shared lock is released
ReadRoot(t) ==
  /\ pc[t] = "readRoot"
  /\ oldRootShadowNode' = [oldRootShadowNode EXCEPT ![t] = rootShadowNode_]
  /\ commitMutex_' = [commitMutex_ EXCEPT !.readers = @ \ {t}]
  /\ Goto(t, "transaction")
  /\ UNCHANGED <<treeVars, dispatchMutex, outVars, newRootShadowNode,
                 affectedLayoutableNodes, revisionNumber, transaction, attempts, calls>>

\* newRootShadowNode = transaction(oldRootShadowNode), a candidate
InvokeTransaction(t) ==
  /\ pc[t] = "transaction"
  /\ transaction[t].kind # "abort"
  /\ LET made == Build(transaction[t], heap, oldRootShadowNode[t])
     IN /\ heap' = heap \o made
        /\ newRootShadowNode' = [newRootShadowNode EXCEPT ![t] = Len(heap) + Len(made)]
  /\ Goto(t, "layout")
  /\ UNCHANGED <<mounted, sealed, rootShadowNode_, revisionNumber_, history, lastPass,
                 lockVars, outVars, oldRootShadowNode, affectedLayoutableNodes,
                 revisionNumber, transaction, attempts, calls>>

\* mutant: the delegate is told of an attempt whose transaction aborted
AbortNotifies(t) ==
  /\ pc[t] = "transaction"
  /\ transaction[t].kind = "abort"
  /\ delegateCalls' = delegateCalls + 1
  /\ Goto(t, "failed")
  /\ UNCHANGED <<treeVars, lockVars, mountingCoordinator_, layoutEmissions, localVars,
                 transaction, attempts, calls>>

\* transaction(oldRootShadowNode) returns null: tryCommit returns false
AbortTransaction(t) ==
  /\ pc[t] = "transaction"
  /\ transaction[t].kind = "abort"
  /\ Goto(t, "failed")
  /\ UNCHANGED <<treeVars, lockVars, outVars, localVars, transaction, attempts, calls>>

\* newRootShadowNode->layout(&affectedLayoutableNodes): the nodes laid out
\* are those of the candidate that are not sealed yet
Layout(t) ==
  /\ pc[t] = "layout"
  /\ affectedLayoutableNodes' =
       [affectedLayoutableNodes EXCEPT ![t] = Subtree(newRootShadowNode[t]) \ sealed]
  /\ Goto(t, "seal")
  /\ UNCHANGED <<treeVars, lockVars, outVars, oldRootShadowNode, newRootShadowNode,
                 revisionNumber, transaction, attempts, calls>>

\* newRootShadowNode->sealRecursive()
SealRecursive(t) ==
  /\ pc[t] = "seal"
  /\ sealed' = sealed \cup Subtree(newRootShadowNode[t])
  /\ Goto(t, "lockUnique")
  /\ UNCHANGED <<heap, mounted, rootShadowNode_, revisionNumber_, history, lastPass,
                 lockVars, outVars, localVars, transaction, attempts, calls>>

\* mutant: the lock of the swap is taken in shared manner, like the lock of
\* the read, so it excludes no other holder
LockUniqueAsShared(t) ==
  /\ pc[t] = "lockUnique"
  /\ commitMutex_' = [commitMutex_ EXCEPT !.writer = t]
  /\ Goto(t, "check")
  /\ UNCHANGED <<treeVars, dispatchMutex, outVars, localVars, transaction, attempts, calls>>

\* std::unique_lock<better::shared_mutex> lock(commitMutex_)
LockUnique(t) ==
  /\ pc[t] = "lockUnique"
  /\ commitMutex_.writer = NoThread
  /\ commitMutex_.readers = {}
  /\ commitMutex_' = [commitMutex_ EXCEPT !.writer = t]
  /\ Goto(t, "check")
  /\ UNCHANGED <<treeVars, dispatchMutex, outVars, localVars, transaction, attempts, calls>>

\* mutant: the revision counter is advanced before the check, so an attempt
\* that meets a conflict has used up a number
ConflictUsesNumber(t) ==
  /\ pc[t] = "check"
  /\ rootShadowNode_ # oldRootShadowNode[t]
  /\ revisionNumber_' = revisionNumber_ + 1
  /\ commitMutex_' = [commitMutex_ EXCEPT !.writer = NoThread]
  /\ Goto(t, "failed")
  /\ UNCHANGED <<heap, mounted, sealed, rootShadowNode_, history, lastPass, dispatchMutex,
                 outVars, localVars, transaction, attempts, calls>>

\* mutant: the early return on a conflict leaves the lock taken
ConflictKeepsLock(t) ==
  /\ pc[t] = "check"
  /\ rootShadowNode_ # oldRootShadowNode[t]
  /\ Goto(t, "failed")
  /\ UNCHANGED <<treeVars, lockVars, outVars, localVars, transaction, attempts, calls>>

\* if (rootShadowNode_ != oldRootShadowNode) return false;  (the lock is released)
Conflict(t) ==
  /\ pc[t] = "check"
  /\ rootShadowNode_ # oldRootShadowNode[t]
  /\ commitMutex_' = [commitMutex_ EXCEPT !.writer = NoThread]
  /\ Goto(t, "failed")
  /\ UNCHANGED <<treeVars, dispatchMutex, outVars, localVars, transaction, attempts, calls>>

\* mutant: the swap is made without comparing the current root with the snapshot
SwapUnchecked(t) ==
  /\ pc[t] = "check"
  /\ rootShadowNode_' = newRootShadowNode[t]
  /\ Goto(t, "lockDispatch")
  /\ UNCHANGED <<heap, mounted, sealed, revisionNumber_, history, lastPass,
                 lockVars, outVars, localVars, transaction, attempts, calls>>

\* rootShadowNode_ = newRootShadowNode
Swap(t) ==
  /\ pc[t] = "check"
  /\ rootShadowNode_ = oldRootShadowNode[t]
  /\ rootShadowNode_' = newRootShadowNode[t]
  /\ Goto(t, "lockDispatch")
  /\ UNCHANGED <<heap, mounted, sealed, revisionNumber_, history, lastPass,
                 lockVars, outVars, localVars, transaction, attempts, calls>>

\* mutant: the pass is entered without the dispatch lock
LockDispatchSkipped(t) ==
  /\ pc[t] = "lockDispatch"
  /\ Goto(t, "updateMounted")
  /\ UNCHANGED <<treeVars, lockVars, outVars, localVars, transaction, attempts, calls>>

\* std::lock_guard<std::mutex> dispatchLock(EventEmitter::DispatchMutex())
LockDispatch(t) ==
  /\ pc[t] = "lockDispatch"
  /\ dispatchMutex = NoThread
  /\ dispatchMutex' = t
  /\ Goto(t, "updateMounted")
  /\ UNCHANGED <<treeVars, commitMutex_, outVars, localVars, transaction, attempts, calls>>

\* updateMountedFlag(oldRootShadowNode->getChildren(), newRootShadowNode->getChildren());
\* the dispatch lock is released
UpdateMounted(t) ==
  /\ pc[t] = "updateMounted"
  /\ LET old == getChildren(oldRootShadowNode[t])
         new == getChildren(newRootShadowNode[t])
         events == updateMountedFlag(old, new)
     IN /\ mounted' = ApplyEvents(mounted, events)
        /\ lastPass' = [old |-> old, new |-> new, events |-> events, before |-> mounted]
  /\ dispatchMutex' = NoThread
  /\ Goto(t, "increment")
  /\ UNCHANGED <<heap, sealed, rootShadowNode_, revisionNumber_, history, commitMutex_,
                 outVars, localVars, transaction, attempts, calls>>

\* revisionNumber_++;
IncrementRevision(t) ==
  /\ pc[t] = "increment"
  /\ revisionNumber_' = revisionNumber_ + 1
  /\ Goto(t, "capture")
  /\ UNCHANGED <<heap, mounted, sealed, rootShadowNode_, history, lastPass, lockVars,
                 outVars, localVars, transaction, attempts, calls>>

\* revisionNumber = revisionNumber_;
CaptureRevision(t) ==
  /\ pc[t] = "capture"
  /\ revisionNumber' = [revisionNumber EXCEPT ![t] = revisionNumber_]
  /\ history' = Append(history, Revision(newRootShadowNode[t], revisionNumber_))
  /\ Goto(t, "unlockUnique")
  /\ UNCHANGED <<heap, mounted, sealed, rootShadowNode_, revisionNumber_, lastPass,
                 lockVars, outVars, oldRootShadowNode, newRootShadowNode,
                 affectedLayoutableNodes, transaction, attempts, calls>>

\* the end of the scope of the unique lock
UnlockUnique(t) ==
  /\ pc[t] = "unlockUnique"
  /\ commitMutex_' = [commitMutex_ EXCEPT !.writer = NoThread]
  /\ Goto(t, "emit")
  /\ UNCHANGED <<treeVars, dispatchMutex, outVars, localVars, transaction, attempts, calls>>

\* emitLayoutEvents(affectedLayoutableNodes)
EmitLayoutEvents(t) ==
  /\ pc[t] = "emit"
  /\ layoutEmissions' = layoutEmissions + 1
  /\ Goto(t, "push")
  /\ UNCHANGED <<treeVars, lockVars, mountingCoordinator_, delegateCalls, localVars,
                 transaction, attempts, calls>>

\* mountingCoordinator_->push(ShadowTreeRevision{newRootShadowNode, revisionNumber, telemetry})
Push(t) ==
  /\ pc[t] = "push"
  /\ mountingCoordinator_' =
       [mountingCoordinator_ EXCEPT
          !.pushed = Append(@, Revision(newRootShadowNode[t], revisionNumber[t]))]
  /\ Goto(t, "notify")
  /\ UNCHANGED <<treeVars, lockVars, delegateCalls, layoutEmissions, localVars,
                 transaction, attempts, calls>>

\* delegate_.shadowTreeDidFinishTransaction(...); tryCommit returns true and
\* commit returns
NotifyDelegate(t) ==
  /\ pc[t] = "notify"
  /\ delegateCalls' = delegateCalls + 1
  /\ Goto(t, "idle")
  /\ transaction' = [transaction EXCEPT ![t] = NoTransaction]
  /\ attempts' = [attempts EXCEPT ![t] = 0]
  /\ oldRootShadowNode' = [oldRootShadowNode EXCEPT ![t] = NoNode]
  /\ newRootShadowNode' = [newRootShadowNode EXCEPT ![t] = NoNode]
  /\ affectedLayoutableNodes' = [affectedLayoutableNodes EXCEPT ![t] = {}]
  /\ revisionNumber' = [revisionNumber EXCEPT ![t] = 0]
  /\ UNCHANGED <<treeVars, lockVars, mountingCoordinator_, layoutEmissions, calls>>

\* mutant: at the cap the loop gives up and commit returns, the transaction dropped
RetryReturns(t, explored) ==
  /\ pc[t] = "failed"
  /\ IF attempts[t] < AttemptsCap
     THEN /\ attempts[t] < explored
          /\ attempts' = [attempts EXCEPT ![t] = @ + 1]
          /\ Goto(t, "lockShared")
     ELSE /\ Goto(t, "idle")
          /\ UNCHANGED attempts
  /\ oldRootShadowNode' = [oldRootShadowNode EXCEPT ![t] = NoNode]
  /\ newRootShadowNode' = [newRootShadowNode EXCEPT ![t] = NoNode]
  /\ affectedLayoutableNodes' = [affectedLayoutableNodes EXCEPT ![t] = {}]
  /\ UNCHANGED <<treeVars, lockVars, outVars, revisionNumber, transaction, calls>>

\* tryCommit returned false: assert(attempts < 1024), then the next attempts++.
\* The failed assertion ends the process. Only the first `explored` attempts
\* of a call are followed.
RetryUpTo(t, explored) ==
  /\ pc[t] = "failed"
  /\ IF attempts[t] < AttemptsCap
     THEN /\ attempts[t] < explored
          /\ attempts' = [attempts EXCEPT ![t] = @ + 1]
          /\ Goto(t, "lockShared")
     ELSE /\ Goto(t, "halted")
          /\ UNCHANGED attempts
  /\ oldRootShadowNode' = [oldRootShadowNode EXCEPT ![t] = NoNode]
  /\ newRootShadowNode' = [newRootShadowNode EXCEPT ![t] = NoNode]
  /\ affectedLayoutableNodes' = [affectedLayoutableNodes EXCEPT ![t] = {}]
  /\ UNCHANGED <<treeVars, lockVars, outVars, revisionNumber, transaction, calls>>

\* the loop of commit, followed for the first MaxAttempts attempts
Retry(t) == RetryUpTo(t, MaxAttempts)

\* the loop of commit, followed to the assertion
RetryToCap(t) == RetryUpTo(t, AttemptsCap)

Next ==
  \E t \in Threads :
    \/ commit(t)
    \/ commitEmptyTree(t)
    \/ LockShared(t)
    \/ ReadRoot(t)
    \/ InvokeTransaction(t)
    \/ AbortTransaction(t)
    \/ Layout(t)
    \/ SealRecursive(t)
    \/ LockUnique(t)
    \/ Conflict(t)
    \/ Swap(t)
    \/ LockDispatch(t)
    \/ UpdateMounted(t)
    \/ IncrementRevision(t)
    \/ CaptureRevision(t)
    \/ UnlockUnique(t)
    \/ EmitLayoutEvents(t)
    \/ Push(t)
    \/ NotifyDelegate(t)
    \/ Retry(t)

Spec == Init /\ [][Next]_vars

\* One thread committing edits one after the other: the mount-flag pass on
\* the pairs of consecutive trees that the edits produce.
MountNext ==
  \/ commitEdit
  \/ LockShared(MainThread)
  \/ ReadRoot(MainThread)
  \/ InvokeTransaction(MainThread)
  \/ Layout(MainThread)
  \/ SealRecursive(MainThread)
  \/ LockUnique(MainThread)
  \/ Swap(MainThread)
  \/ LockDispatch(MainThread)
  \/ UpdateMounted(MainThread)
  \/ IncrementRevision(MainThread)
  \/ CaptureRevision(MainThread)
  \/ UnlockUnique(MainThread)
  \/ EmitLayoutEvents(MainThread)
  \/ Push(MainThread)
  \/ NotifyDelegate(MainThread)

MountSpec == Init /\ [][MountNext]_vars

\* Every thread calls commit once with a transaction that never aborts;
\* every thread that can take a step eventually takes one.
OnceStep(t) ==
  \/ commitOnce(t)
  \/ LockShared(t)
  \/ ReadRoot(t)
  \/ InvokeTransaction(t)
  \/ Layout(t)
  \/ SealRecursive(t)
  \/ LockUnique(t)
  \/ Conflict(t)
  \/ Swap(t)
  \/ LockDispatch(t)
  \/ UpdateMounted(t)
  \/ IncrementRevision(t)
  \/ CaptureRevision(t)
  \/ UnlockUnique(t)
  \/ EmitLayoutEvents(t)
  \/ Push(t)
  \/ NotifyDelegate(t)
  \/ Retry(t)

OnceNext == \E t \in Threads : OnceStep(t)

OnceSpec == Init /\ [][OnceNext]_vars /\ \A t \in Threads : WF_vars(OnceStep(t))

\* One call that may abort on every attempt, next to one call that never
\* aborts: the loop of commit followed to its assertion.
CapThreads == {MainThread, NumThreads}

commitToCap(t) ==
  /\ calls[t] = 0
  /\ \E op \in (IF t = MainThread THEN ConcurrentTransactions
                 ELSE {Op("append", 0, 1, TRUE)}) : Call(t, op)

CapNext ==
  \E t \in CapThreads :
    \/ commitToCap(t)
    \/ LockShared(t)
    \/ ReadRoot(t)
    \/ InvokeTransaction(t)
    \/ AbortTransaction(t)
    \/ Layout(t)
    \/ SealRecursive(t)
    \/ LockUnique(t)
    \/ Conflict(t)
    \/ Swap(t)
    \/ LockDispatch(t)
    \/ UpdateMounted(t)
    \/ IncrementRevision(t)
    \/ CaptureRevision(t)
    \/ UnlockUnique(t)
    \/ EmitLayoutEvents(t)
    \/ Push(t)
    \/ NotifyDelegate(t)
    \/ RetryToCap(t)

CapSpec == Init /\ [][CapNext]_vars

\* The event-emitter dispatch: it runs holding EventEmitter::DispatchMutex(),
\* on a thread of its own.
Dispatcher == NumThreads + 1

DispatchBegin ==
  /\ dispatchMutex = NoThread
  /\ dispatchMutex' = Dispatcher
  /\ UNCHANGED <<treeVars, commitMutex_, outVars, localVars, pc, transaction, attempts, calls>>

DispatchEnd ==
  /\ dispatchMutex = Dispatcher
  /\ dispatchMutex' = NoThread
  /\ UNCHANGED <<treeVars, commitMutex_, outVars, localVars, pc, transaction, attempts, calls>>

\* Every thread calls commit once while events are dispatched.
DispatchNext ==
  \/ OnceNext
  \/ DispatchBegin
  \/ DispatchEnd

DispatchSpec == Init /\ [][DispatchNext]_vars

\* ================================================================ claims
PushedNumbers == [i \in 1..Len(mountingCoordinator_.pushed) |->
                    mountingCoordinator_.pushed[i].number]

\* the root of the revision committed last
LastCommitted ==
  IF history = <<>> THEN mountingCoordinator_.base.root ELSE history[Len(history)].root

\* C1: the constructor publishes revision 0 and the k-th successful commit
\* is assigned number k: the numbers are 1, 2, 3, ... in the order of the
\* swaps, without a gap and without a repeat, and the counter is the count
\* of the commits made.
C1_RevisionNumbersConsecutive ==
  /\ mountingCoordinator_.base.number = 0
  /\ \A k \in 1..Len(history) : history[k].number = k
  /\ \A t \in Threads :
       pc[t] \in {"unlockUnique", "emit", "push", "notify"} =>
         /\ revisionNumber[t] \in 1..Len(history)
         /\ history[revisionNumber[t]].root = newRootShadowNode[t]

C1_Witness ==
  /\ Len(history) = 2
  /\ \E t \in Threads : pc[t] = "unlockUnique" /\ revisionNumber[t] = 2
  /\ \E t \in Threads : pc[t] = "emit" /\ revisionNumber[t] = 1

\* C2: the revisions pushed to the Revision Feed carry strictly increasing
\* numbers, in the order of the push calls.
C2_PushesIncrease ==
  \A i, j \in 1..Len(PushedNumbers) : i < j => PushedNumbers[i] < PushedNumbers[j]

\* C3: a commit whose transaction aborts on every invocation returns after
\* the first abort, with no error: it makes one attempt and never halts, and
\* the root, the revision number, the Revision Feed and the delegate are
\* left as they were.
C3_AbortReturns ==
  \A t \in Threads :
    transaction[t] = AbortOp =>
      /\ attempts[t] <= 1
      /\ pc[t] # "halted"

\* C4: every root installed as current was built by a transaction invocation
\* whose snapshot was the root current immediately before the swap.
C4_NeverStale ==
  /\ \A k \in 1..Len(history) :
       heap[history[k].root].builtFrom =
         IF k = 1 THEN mountingCoordinator_.base.root ELSE history[k - 1].root
  /\ \/ rootShadowNode_ = LastCommitted
     \/ heap[rootShadowNode_].builtFrom = LastCommitted

\* a second attempt, made on the root of revision 1, has become revision 2
C4_Witness ==
  \E t \in Threads :
    /\ attempts[t] = 2
    /\ pc[t] = "unlockUnique"
    /\ revisionNumber[t] = 2
    /\ oldRootShadowNode[t] = history[1].root
    /\ rootShadowNode_ = newRootShadowNode[t]

AllReturned == \A t \in Threads : calls[t] = 1 /\ pc[t] = "idle"

\* C5: when each of the threads calls commit once with a transaction that
\* never aborts, all the calls return, the commits carry the numbers
\* 1..NumThreads, and no call makes more than NumThreads attempts.
C5_AllCommit ==
  /\ <>[]AllReturned
  /\ [](\A t \in Threads : attempts[t] <= NumThreads)
  /\ [](AllReturned =>
          /\ Len(PushedNumbers) = NumThreads
          /\ {PushedNumbers[i] : i \in 1..NumThreads} = 1..NumThreads)

\* all have returned, and an attempt had failed on the way
C5_Witness == AllReturned /\ Len(heap) > 1 + 2 * NumThreads

\* C6: the current root and the root of every revision handed to the
\* Revision Feed, revision 0 included, is sealed with all the nodes below it.
C6_AlwaysSealed ==
  /\ Subtree(rootShadowNode_) \subseteq sealed
  /\ Subtree(mountingCoordinator_.base.root) \subseteq sealed
  /\ \A i \in 1..Len(mountingCoordinator_.pushed) :
       Subtree(mountingCoordinator_.pushed[i].root) \subseteq sealed

\* ------------------------------------------- the mount-flag pass (claims)
PassEvents == lastPass.events
PassOld == lastPass.old.items
PassNew == lastPass.new.items

\* the nodes of the old tree and of the new tree of the latest pass
Reach(items) == UNION {Subtree(items[i]) : i \in 1..Len(items)}
OldNodes == Reach(PassOld)
NewNodes == Reach(PassNew)

Min(a, b) == IF a < b THEN a ELSE b

\* a pass has just been made: its thread is at the line after it
AfterPass == \E t \in Threads : pc[t] = "increment"

\* the positions of event e in the latest pass
Positions(e) == {p \in 1..Len(PassEvents) : PassEvents[p] = e}

\* event a occurs in the latest pass, event b too, and every a before every b
Before(a, b) ==
  /\ Positions(a) # {}
  /\ Positions(b) # {}
  /\ \A p \in Positions(a), q \in Positions(b) : p < q

\* the pairs <<old, new>> at one index of two sibling lists, and of the
\* sibling lists below such pairs
RECURSIVE SamePositionPairs(_, _)
SamePositionPairs(oldItems, newItems) ==
  UNION {{<<oldItems[i], newItems[i]>>}
           \cup SamePositionPairs(heap[oldItems[i]].children, heap[newItems[i]].children)
         : i \in 1..Min(Len(oldItems), Len(newItems))}

Remounted(pair) == pair[1] # pair[2] /\ sameFamily(pair[1], pair[2])

\* C7: whenever an old node is replaced at its index by another instance of
\* its family, the new node is set mounted before the old node is set
\* unmounted.
C7_MountBeforeUnmount ==
  AfterPass =>
  \A pair \in SamePositionPairs(PassOld, PassNew) :
    Remounted(pair) => Before(SetMounted(pair[2], TRUE), SetMounted(pair[1], FALSE))

C7_Witness ==
  /\ pc[MainThread] = "increment"
  /\ \E i \in 1..Min(Len(PassOld), Len(PassNew)) : Remounted(<<PassOld[i], PassNew[i]>>)
  /\ \E pair \in SamePositionPairs(PassOld, PassNew) :
       Remounted(pair) /\ pair[1] \notin Range(PassOld)

HasFamilyIn(n, nodes) == \E m \in nodes : sameFamily(m, n)

\* the first index at which the two lists end or hold nodes of two families
RECURSIVE PrefixEnd(_, _, _)
PrefixEnd(oldItems, newItems, i) ==
  IF i > Len(oldItems) \/ i > Len(newItems) THEN i
  ELSE IF ~sameFamily(oldItems[i], newItems[i]) THEN i
  ELSE PrefixEnd(oldItems, newItems, i + 1)

\* C8: after the pass, a node of the new tree with no node of its family in
\* the old tree is mounted, a node of the old tree with no node of its family
\* in the new tree is unmounted, and below a pair of one family in the common
\* prefix the children were diffed: the new children that are not in the old
\* tree are mounted, the old children that are not in the new tree unmounted.
C8_Conservation ==
  AfterPass =>
  /\ \A n \in NewNodes : ~HasFamilyIn(n, OldNodes) => n \in mounted
  /\ \A o \in OldNodes : ~HasFamilyIn(o, NewNodes) => o \notin mounted
  /\ \A i \in 1..(PrefixEnd(PassOld, PassNew, 1) - 1) :
       /\ \A n \in Range(heap[PassNew[i]].children) : n \notin OldNodes => n \in mounted
       /\ \A o \in Range(heap[PassOld[i]].children) : o \notin NewNodes => o \notin mounted

\* a pass with an inserted family, a removed family that has a child, and a
\* pair of one family whose child lists differ
C8_Witness ==
  /\ pc[MainThread] = "increment"
  /\ \E n \in NewNodes : ~HasFamilyIn(n, OldNodes)
  /\ \E o \in OldNodes : ~HasFamilyIn(o, NewNodes) /\ heap[o].children # <<>>
  /\ \E i \in 1..(PrefixEnd(PassOld, PassNew, 1) - 1) :
       heap[PassNew[i]].children # heap[PassOld[i]].children

\* s occurs in the latest pass as one run of consecutive events
OccursInPass(s) ==
  \E p \in 0..(Len(PassEvents) - Len(s)) : SubSeq(PassEvents, p + 1, p + Len(s)) = s

\* the old and the new child at index 2 (the third) are two instances of one family
SameFamilyAtIndex2 ==
  /\ Len(PassOld) >= 3
  /\ Len(PassNew) >= 3
  /\ Remounted(<<PassOld[3], PassNew[3]>>)

\* C9 as stated: no mount or unmount transition fires for the node at index 2
\* when the old and the new child there are of one family.
C9_NoTransition ==
  (AfterPass /\ SameFamilyAtIndex2) =>
    \A p \in 1..Len(PassEvents) :
      PassEvents[p][1] = "setMounted" => PassEvents[p][2] \notin {PassOld[3], PassNew[3]}

\* C9, amended: when stage 1 reaches index 2 and the old and the new child
\* there are two instances of one family, the new one is set mounted (its
\* state committed), then the old one is set unmounted, then the children of
\* the pair are diffed.
C9_RemountThenRecurse ==
  (AfterPass /\ SameFamilyAtIndex2 /\ PrefixEnd(PassOld, PassNew, 1) > 3) =>
    OccursInPass(<<SetMounted(PassNew[3], TRUE)>>
                   \o (IF getState(PassNew[3]) THEN <<<<"commit", PassNew[3]>>>> ELSE <<>>)
                   \o <<SetMounted(PassOld[3], FALSE)>>
                   \o updateMountedFlag(getChildren(PassOld[3]), getChildren(PassNew[3])))

\* the pair at index 2 has child lists that differ, so its diff has events
C9_Witness ==
  /\ pc[MainThread] = "increment"
  /\ SameFamilyAtIndex2
  /\ PrefixEnd(PassOld, PassNew, 1) > 3
  /\ updateMountedFlag(getChildren(PassOld[3]), getChildren(PassNew[3])) # <<>>

\* C10: state->commit(node) is called once each time a node that has a state
\* is set mounted, right after the flag is set, and at no other time.
C10_CommitOncePerMount ==
  AfterPass =>
  \A p \in 1..Len(PassEvents) :
    LET e == PassEvents[p]
    IN /\ (e[1] = "setMounted" /\ e[3] /\ getState(e[2])) =>
            /\ p < Len(PassEvents)
            /\ PassEvents[p + 1] = <<"commit", e[2]>>
       /\ e[1] = "commit" =>
            /\ getState(e[2])
            /\ p > 1
            /\ PassEvents[p - 1] = SetMounted(e[2], TRUE)

\* a pass that mounts a node with a state and a node without, unmounts a
\* node with a state and skips one
C10_Witness ==
  /\ pc[MainThread] = "increment"
  /\ \E n \in NewNodes : getState(n) /\ Positions(<<"commit", n>>) # {}
  /\ \E n \in NewNodes : ~getState(n) /\ Positions(SetMounted(n, TRUE)) # {}
  /\ \E o \in OldNodes : getState(o) /\ Positions(SetMounted(o, FALSE)) # {}
  /\ \E i \in 1..Min(Len(PassOld), Len(PassNew)) : PassOld[i] = PassNew[i]

\* ------------------------------------------------ the retry loop (claims)
\* the attempt thread t is making has been committed: its candidate holds the
\* number it captured
OwnAttemptSucceeded(t) ==
  /\ revisionNumber[t] \in 1..Len(history)
  /\ history[revisionNumber[t]].root = newRootShadowNode[t]
  /\ heap[newRootShadowNode[t]].builtFrom = oldRootShadowNode[t]
  /\ Revision(newRootShadowNode[t], revisionNumber[t]) \in Range(mountingCoordinator_.pushed)

\* C11: commit returns only from an attempt of its own that succeeded; a
\* failed attempt is followed by another attempt while fewer than 1024 have
\* been made, and the 1024th failure in a row takes the engine to the halt,
\* which it never leaves: no call makes a 1025th attempt.
C11_RetryCapped ==
  [][\A t \in Threads :
       /\ (pc[t] # "idle" /\ pc'[t] = "idle") =>
            (pc[t] = "notify" /\ OwnAttemptSucceeded(t))
       /\ (pc[t] = "failed" /\ pc'[t] # "failed") =>
            IF attempts[t] < AttemptsCap
            THEN pc'[t] = "lockShared" /\ attempts'[t] = attempts[t] + 1
            ELSE pc'[t] = "halted"
       /\ (pc'[t] = "halted" /\ pc[t] # "halted") =>
            (pc[t] = "failed" /\ attempts[t] = AttemptsCap)
       /\ pc[t] = "halted" => pc'[t] = "halted"
       /\ attempts'[t] <= AttemptsCap]_vars

\* one call has halted at its 1024th failure, the other has returned after
\* its commit
C11_Witness ==
  /\ pc[MainThread] = "halted"
  /\ attempts[MainThread] = AttemptsCap
  /\ pc[NumThreads] = "idle"
  /\ calls[NumThreads] = 1
  /\ Len(history) = 1

\* ------------------------------------------ the order of one attempt (claims)
\* the threads whose position is one of `labels`
At(labels) == {t \in Threads : pc[t] \in labels}

\* the revision thread t has committed and is publishing
Publishing(t) == Revision(newRootShadowNode[t], revisionNumber[t])

\* C12: the delegate has been notified once for each commit that went
\* through, and for nothing else; a successful attempt swaps and captures its
\* number, then emits the layout events, then pushes its revision, then
\* notifies the delegate: the counts of emissions, pushes and notifications
\* are the count of the numbers assigned, less the attempts that have not yet
\* come to that step.
C12_NotifiedOncePerCommit ==
  /\ layoutEmissions = Len(history) - Cardinality(At({"unlockUnique", "emit"}))
  /\ Len(mountingCoordinator_.pushed) =
       Len(history) - Cardinality(At({"unlockUnique", "emit", "push"}))
  /\ delegateCalls =
       Len(history) - Cardinality(At({"unlockUnique", "emit", "push", "notify"}))
  /\ \A t \in At({"unlockUnique", "emit", "push"}) :
       /\ Publishing(t) \in Range(history)
       /\ Publishing(t) \notin Range(mountingCoordinator_.pushed)
  /\ \A t \in At({"notify"}) :
       /\ Publishing(t) \in Range(history)
       /\ Publishing(t) \in Range(mountingCoordinator_.pushed)

\* one commit has been notified; the other thread, whose first attempt met a
\* conflict, has pushed its revision and not yet notified
C12_Witness ==
  /\ delegateCalls = 1
  /\ layoutEmissions = 2
  /\ \E t \in Threads : pc[t] = "notify" /\ attempts[t] = 2

\* ------------------------------------------------------- the locks (claims)
HoldsShared(t) == t \in commitMutex_.readers
HoldsUnique(t) == commitMutex_.writer = t
HoldsDispatch(t) == dispatchMutex = t
HoldsNone(t) == ~HoldsShared(t) /\ ~HoldsUnique(t) /\ ~HoldsDispatch(t)

\* C13: a thread holds no lock while it is outside commit, about to run or
\* running the transaction, the layout, the sealing, the emission of the
\* layout events, the push or the delegate notification, nor after an
\* attempt has ended by an abort, a conflict or a success; the shared lock is
\* held over the read of the root only, the unique lock from the check to the
\* capture, the dispatch lock over the pass only.
C13_NoLockOutside ==
  \A t \in Threads :
    /\ pc[t] \in {"idle", "lockShared", "transaction", "layout", "seal", "lockUnique",
                  "emit", "push", "notify", "failed", "halted"} => HoldsNone(t)
    /\ HoldsShared(t) <=> pc[t] = "readRoot"
    /\ HoldsUnique(t) <=>
         pc[t] \in {"check", "lockDispatch", "updateMounted", "increment", "capture",
                    "unlockUnique"}
    /\ HoldsDispatch(t) <=> pc[t] = "updateMounted"

\* an attempt has ended by a conflict, the attempt that won is at the
\* delegate notification, and no lock is held
C13_Witness ==
  /\ \E t, u \in Threads :
       /\ pc[t] = "failed"
       /\ transaction[t] # AbortOp
       /\ pc[u] = "notify"
  /\ \A t \in Threads : HoldsNone(t)

\* thread t is in the mount-flag pass
InPass(t) == pc[t] = "updateMounted"

\* C14: a thread in the mount-flag pass holds the unique commit lock and the
\* dispatch lock; meanwhile no other thread is in the pass, reads the current
\* root or is between the check and the swap, and the event dispatch does not
\* hold the dispatch lock; the pass is the one from the tree of the revision
\* numbered last to the tree that gets the next number.
C14_PassUnderBothLocks ==
  \A t \in Threads :
    InPass(t) =>
      /\ HoldsUnique(t)
      /\ HoldsDispatch(t)
      /\ dispatchMutex # Dispatcher
      /\ commitMutex_.readers = {}
      /\ \A u \in Threads \ {t} :
           pc[u] \notin {"readRoot", "check", "lockDispatch", "updateMounted",
                         "increment", "capture", "unlockUnique"}
      /\ oldRootShadowNode[t] = LastCommitted
      /\ newRootShadowNode[t] = rootShadowNode_
      /\ revisionNumber_ = Len(history)

\* the pass of the second commit is running, in an attempt made after a
\* conflict, while the thread of the first commit has not pushed yet
C14_Witness ==
  \E t, u \in Threads :
    /\ InPass(t)
    /\ attempts[t] = 2
    /\ Len(history) = 1
    /\ pc[u] = "push"

\* ----------------------------------- divergence and fast paths (claims)
\* the first index from i on at which the two lists hold two instances of two
\* families; past the shorter list if there is none
RECURSIVE Divergence(_, _, _)
Divergence(oldItems, newItems, i) ==
  IF i > Len(oldItems) \/ i > Len(newItems) THEN Min(Len(oldItems), Len(newItems)) + 1
  ELSE IF oldItems[i] # newItems[i] /\ ~sameFamily(oldItems[i], newItems[i]) THEN i
  ELSE Divergence(oldItems, newItems, i + 1)

\* the root lists of the latest pass diverge at an index both of them have
Diverged == Divergence(PassOld, PassNew, 1) <= Min(Len(PassOld), Len(PassNew))

\* the nodes at and below the entries of items from index k on
From(items, k) == UNION {Subtree(items[i]) : i \in k..Len(items)}

\* C15: when the root lists of a pass diverge at index k, every new entry at
\* an index >= k and every node below it is set mounted, every old entry at
\* an index >= k and every node below it is set unmounted, each of these
\* mounts comes before each of these unmounts, and so the old entries from k
\* on end unmounted, the ones that are in the new list too.
C15_DivergenceStopsUpdates ==
  (AfterPass /\ Diverged) =>
    LET k == Divergence(PassOld, PassNew, 1)
    IN /\ \A n \in From(PassNew, k) : Positions(SetMounted(n, TRUE)) # {}
       /\ \A o \in From(PassOld, k) : Positions(SetMounted(o, FALSE)) # {}
       /\ \A n \in From(PassNew, k), o \in From(PassOld, k) :
            Before(SetMounted(n, TRUE), SetMounted(o, FALSE))
       /\ \A o \in From(PassOld, k) : o \notin mounted

\* a divergence followed by a pair of one family and by a pair that is one
\* instance, with a node below an entry after the divergence
C15_Witness ==
  /\ pc[MainThread] = "increment"
  /\ Diverged
  /\ \E i, j \in (Divergence(PassOld, PassNew, 1) + 1)..Min(Len(PassOld), Len(PassNew)) :
       /\ Remounted(<<PassOld[i], PassNew[i]>>)
       /\ PassOld[j] = PassNew[j]
       /\ heap[PassOld[j]].children # <<>>

\* the two lists are one list object, or both are empty
FastPath(oldChildren, newChildren) ==
  \/ oldChildren.id = newChildren.id
  \/ (oldChildren.items = <<>> /\ newChildren.items = <<>>)

\* the nodes the diff of the two lists passes over: those of two lists on the
\* fast path, those at and below an entry that stage 1 finds to be the same
\* instance in the two lists, and those passed over in the diffs that stage 1
\* makes below its pairs of one family
RECURSIVE PassedOver(_, _)
PassedOver(oldChildren, newChildren) ==
  IF FastPath(oldChildren, newChildren)
  THEN Reach(oldChildren.items) \cup Reach(newChildren.items)
  ELSE UNION {IF oldChildren.items[i] = newChildren.items[i]
              THEN Subtree(oldChildren.items[i])
              ELSE PassedOver(getChildren(oldChildren.items[i]),
                              getChildren(newChildren.items[i]))
              : i \in 1..(Divergence(oldChildren.items, newChildren.items, 1) - 1)}

\* C16: a pass on two root lists that are one list object, or both empty,
\* makes no call; and no call of a pass is made on a node of two lists on the
\* fast path or on a node at or below an entry that stage 1 finds to be the
\* same instance in the two lists: their flags are as before the pass and no
\* state of theirs is committed.
C16_FastPathsChangeNothing ==
  AfterPass =>
    /\ FastPath(lastPass.old, lastPass.new) =>
         (PassEvents = <<>> /\ mounted = lastPass.before)
    /\ \A n \in PassedOver(lastPass.old, lastPass.new) :
         /\ \A p \in 1..Len(PassEvents) : PassEvents[p][2] # n
         /\ n \in mounted <=> n \in lastPass.before

\* a pass that makes calls, with an entry that is the same mounted instance
\* in the two lists and a pair of one family whose lists are one list object
\* that has entries
C16_Witness ==
  /\ pc[MainThread] = "increment"
  /\ PassEvents # <<>>
  /\ \E i, j \in 1..(Divergence(PassOld, PassNew, 1) - 1) :
       /\ PassOld[i] = PassNew[i]
       /\ PassOld[i] \in mounted
       /\ Remounted(<<PassOld[j], PassNew[j]>>)
       /\ heap[PassOld[j]].listId = heap[PassNew[j]].listId
       /\ heap[PassOld[j]].children # <<>>
       /\ Range(heap[PassOld[j]].children) \subseteq mounted

\* ------------------------------------------------ failed attempts (claims)
\* what an attempt can show: the current root, the revision counter, the
\* mounted flags, the Revision Feed, the layout events emitted, the states
\* committed (the calls of the passes) and the delegate notifications
visible == <<rootShadowNode_, revisionNumber_, mounted, mountingCoordinator_,
             layoutEmissions, lastPass, delegateCalls>>

\* the positions of an attempt up to its swap, and the return of false
BeforeSwap == {"lockShared", "readRoot", "transaction", "layout", "seal", "lockUnique",
               "check", "failed"}

\* C17: the steps of an attempt that ends by an abort or by a conflict, which
\* are the steps up to the check and the return of false, change neither the
\* current root, the revision counter, a mounted flag nor the Revision Feed,
\* and emit no layout event, commit no state and notify no delegate.
C17_FailedAttemptChangesNothing ==
  [][\A t \in Threads :
       (pc'[t] # pc[t] /\ pc'[t] \in BeforeSwap) => UNCHANGED visible]_vars

\* an attempt has just ended by a conflict: its candidate, laid out and
\* sealed, is not the current root, and the one commit made is the other's
C17_Witness ==
  \E t \in Threads :
    /\ pc[t] = "failed"
    /\ newRootShadowNode[t] \in sealed
    /\ rootShadowNode_ # newRootShadowNode[t]
    /\ revisionNumber_ = 1
    /\ Len(history) = 1

\* ------------------------------------------------ commitEmptyTree (claims)
\* thread t has committed the empty tree and has not returned yet
CommittedEmptyTree(t) ==
  /\ transaction[t].kind = "empty"
  /\ pc[t] \in {"unlockUnique", "emit", "push", "notify"}

\* the number of the revision before the latest one
PreviousNumber ==
  IF Len(history) <= 1 THEN mountingCoordinator_.base.number
  ELSE history[Len(history) - 1].number

\* C18: when commitEmptyTree has committed, the current root is its
\* candidate and has no children, the revision number is one more than the
\* number of the revision before, and no node below the root that was
\* current before is mounted.
C18_EmptyTreeUnmountsAll ==
  \A t \in Threads :
    CommittedEmptyTree(t) =>
      /\ rootShadowNode_ = newRootShadowNode[t]
      /\ heap[rootShadowNode_].children = <<>>
      /\ revisionNumber_ = PreviousNumber + 1
      /\ revisionNumber[t] = revisionNumber_
      /\ \A n \in Below(oldRootShadowNode[t]) : n \notin mounted

\* the empty tree has replaced a tree two levels deep whose nodes were mounted
C18_Witness ==
  /\ CommittedEmptyTree(MainThread)
  /\ pc[MainThread] = "notify"
  /\ \E i \in 1..Len(heap[oldRootShadowNode[MainThread]].children) :
       LET c == heap[oldRootShadowNode[MainThread]].children[i]
       IN /\ c \in lastPass.before
          /\ heap[c].children # <<>>
          /\ Range(heap[c].children) \subseteq lastPass.before

\* ------------------------------------------------ implicit claims
\* C19: after the mount-flag pass of a commit, every node below the current
\* root is mounted.
C19_CurrentTreeMounted ==
  AfterPass => Below(rootShadowNode_) \subseteq mounted

\* the revision the Revision Feed holds as its latest
LatestPushed ==
  IF mountingCoordinator_.pushed = <<>> THEN mountingCoordinator_.base
  ELSE mountingCoordinator_.pushed[Len(mountingCoordinator_.pushed)]

\* C20: when no commit call is in progress, the revision pushed last (the
\* revision 0 when none was pushed) is that of the current root and carries
\* the current revision number.
C20_FeedCarriesCurrent ==
  (\A t \in Threads : pc[t] = "idle") =>
    /\ LatestPushed.root = rootShadowNode_
    /\ LatestPushed.number = revisionNumber_

====
